---- MODULE Spec2Model ----
(***************************************************************************)
(* Model of stockScript.py: the ticker loader (get_all_a_stock_codes), the *)
(* fetch worker (get_stock_history) and the coordinator / merger (main).   *)
(*                                                                         *)
(* Strings are sequences of one-character strings.  Column names of the    *)
(* data frames are written in ASCII:                                       *)
(*   "code" = 股票代码, "name" = 股票名称, "date" = 日期,                  *)
(*   "open" = 开盘, "turnover" = 换手率, "pct" = 涨跌幅.                   *)
(***************************************************************************)
EXTENDS Integers, Sequences, FiniteSets, TLC

VARIABLES
    pad,        \* the zero-padding pipeline applied to one raw code
    pool,       \* ThreadPoolExecutor occupancy (counters)
    pc,         \* position of main()
    schema,     \* column sequence of the provider's non-empty answers in this run
    stock_codes,\* the ticker list returned by get_all_a_stock_codes()
    futures,    \* per submitted ticker index: the state of its future
    updating,   \* execution units in the middle of updating all_data / pbar
    yielded,    \* the futures as_completed() has already yielded
    all_data,   \* list of the non-empty tables collected by main()
    pbar,       \* tqdm progress counter (pbar.n)
    log,        \* diagnostics printed so far
    df_final,   \* the merged, sorted, column-reordered table
    out_file    \* number of times the output file was written and its content

vars == <<pad, pool, pc, schema, stock_codes, futures, updating, yielded,
          all_data, pbar, log, df_final, out_file>>

runVars == <<pc, schema, stock_codes, futures, updating, yielded,
             all_data, pbar, log, df_final, out_file>>

-----------------------------------------------------------------------------
(* Bounds of the model *)

MaxRawLen == 7      \* longest raw code string fed to the padding functions
MaxTickers == 2     \* longest ticker list
MaxRows == 2        \* most rows the provider returns for one ticker
MaxPoolTickers == 22 \* most tickers submitted to the pool in the occupancy model

(* Program constants *)

CodeWidth == 6      \* zfill(6) and "{:0>6}"
max_workers == 20
DiagLimit == 50     \* str(e)[:50]

-----------------------------------------------------------------------------
(* Python string / integer conversions *)

Digits == {"0", "1", "2", "3", "4", "5", "6", "7", "8", "9"}

Ord(c) ==
    CASE c = "+" -> 43 [] c = "-" -> 45
      [] c = "0" -> 48 [] c = "1" -> 49 [] c = "2" -> 50 [] c = "3" -> 51
      [] c = "4" -> 52 [] c = "5" -> 53 [] c = "6" -> 54 [] c = "7" -> 55
      [] c = "8" -> 56 [] c = "9" -> 57

DigitChar(d) == CHOOSE c \in Digits : Ord(c) = 48 + d

\* s < t for Python str comparison (lexicographic by code point)
RECURSIVE StrLess(_, _)
StrLess(s, t) ==
    IF t = <<>> THEN FALSE
    ELSE IF s = <<>> THEN TRUE
    ELSE IF s[1] # t[1] THEN Ord(s[1]) < Ord(t[1])
    ELSE StrLess(Tail(s), Tail(t))

\* int(s) succeeds: optional sign followed by at least one digit
IsIntLiteral(s) ==
    /\ Len(s) > 0
    /\ LET body == IF s[1] \in {"+", "-"} THEN Tail(s) ELSE s
       IN  Len(body) > 0 /\ \A i \in 1..Len(body) : body[i] \in Digits

RECURSIVE DigitsToNat(_)
DigitsToNat(s) ==
    IF s = <<>> THEN 0
    ELSE 10 * DigitsToNat(SubSeq(s, 1, Len(s) - 1)) + (Ord(s[Len(s)]) - 48)

\* int(s), for s with IsIntLiteral(s)
ToInt(s) ==
    IF s[1] = "-" THEN 0 - DigitsToNat(Tail(s))
    ELSE IF s[1] = "+" THEN DigitsToNat(Tail(s))
    ELSE DigitsToNat(s)

RECURSIVE NatToStr(_)
NatToStr(n) ==
    IF n < 10 THEN <<DigitChar(n)>>
    ELSE Append(NatToStr(n \div 10), DigitChar(n % 10))

\* str(n)
Str(n) == IF n < 0 THEN <<"-">> \o NatToStr(0 - n) ELSE NatToStr(n)

Zeros(k) == [i \in 1..k |-> "0"]

\* No padding at all: the bug the padding claims guard against.
zfillDropped(s, width) == s

\* str.zfill(width): a leading sign stays in front of the zeros
zfill(s, width) ==
    IF Len(s) >= width THEN s
    ELSE IF Len(s) > 0 /\ s[1] \in {"+", "-"}
         THEN <<s[1]>> \o Zeros(width - Len(s)) \o Tail(s)
         ELSE Zeros(width - Len(s)) \o s

\* "{:0>6}".format(n): str(n) right-aligned in `width`, filled with "0"
FormatZeroRight(n, width) ==
    LET t == Str(n) IN IF Len(t) >= width THEN t ELSE Zeros(width - Len(t)) \o t

-----------------------------------------------------------------------------
(* The padding pipeline on one raw code  (SpecPad) *)

PadAlphabet == {"0", "1", "9", "-"}

RawStrings == UNION {[1..n -> PadAlphabet] : n \in 1..MaxRawLen}

\* the provider's code column holds strings or integers
RawCodes ==
    {[kind |-> "str", val |-> s] : s \in RawStrings}
    \cup {[kind |-> "int", val |-> ToInt(s)] : s \in {r \in RawStrings : IsIntLiteral(r)}}

\* .astype(str)
astype_str(x) == IF x.kind = "int" THEN Str(x.val) ELSE x.val

NoPad == [st |-> "idle", raw |-> [kind |-> "str", val |-> <<>>],
          code |-> <<>>, code2 |-> <<>>, stamp |-> <<>>, stamp2 |-> <<>>]

EmptyTable == [columns |-> <<>>, rows |-> <<>>]      \* pd.DataFrame()

\* values of the variables a specification does not use
PoolOff == pool = [total |-> 0, submitted |-> 0, queued |-> 0, threads |-> 0,
                   busy |-> 0, finished |-> 0]

RunOff ==
    /\ pc = "off" /\ schema = <<>> /\ stock_codes = <<>> /\ futures = <<>>
    /\ updating = {} /\ yielded = {} /\ all_data = <<>> /\ pbar = 0 /\ log = {}
    /\ df_final = EmptyTable
    /\ out_file = [writes |-> 0, table |-> EmptyTable]

PadInit ==
    /\ pad \in {[NoPad EXCEPT !.st = "raw", !.raw = x] : x \in RawCodes}
    /\ PoolOff
    /\ RunOff

\* get_all_a_stock_codes, line 12
PadLoad ==
    /\ pad.st = "raw"
    /\ pad' = [pad EXCEPT !.st = "loaded",
                          !.code = zfill(astype_str(pad.raw), CodeWidth)]
    /\ UNCHANGED <<pool, runVars>>

\* get_stock_history, line 31, on the loader's code; int() raises ValueError
\* on a string that is no integer literal
PadStamp ==
    /\ pad.st = "loaded"
    /\ pad' = IF IsIntLiteral(pad.code)
              THEN [pad EXCEPT !.st = "stamped",
                               !.stamp = FormatZeroRight(ToInt(pad.code), CodeWidth)]
              ELSE [pad EXCEPT !.st = "ValueError"]
    /\ UNCHANGED <<pool, runVars>>

\* both padding forms applied once more to their own results
PadAgain ==
    /\ pad.st = "stamped"
    /\ pad' = IF IsIntLiteral(pad.stamp)
              THEN [pad EXCEPT !.st = "repadded",
                               !.code2 = zfill(pad.code, CodeWidth),
                               !.stamp2 = FormatZeroRight(ToInt(pad.stamp), CodeWidth)]
              ELSE [pad EXCEPT !.st = "ValueError"]
    /\ UNCHANGED <<pool, runVars>>

PadNext == PadLoad \/ PadStamp \/ PadAgain

SpecPad == PadInit /\ [][PadNext]_vars

-----------------------------------------------------------------------------
(* Occupancy of the ThreadPoolExecutor  (SpecPool)                          *)
(* The invocations are interchangeable here, so the pool is kept as        *)
(* counters: tickers submitted, work items queued, threads spawned,        *)
(* threads running get_stock_history, invocations finished.                *)

PoolInit ==
    /\ pool \in {[total |-> n, submitted |-> 0, queued |-> 0, threads |-> 0,
                  busy |-> 0, finished |-> 0] : n \in 0..MaxPoolTickers}
    /\ pad = NoPad
    /\ RunOff

\* A pool that spawns a thread for every submission.
CanSpawnUnbounded(threads) == TRUE

\* ThreadPoolExecutor(max_workers=max_workers): a thread is spawned only
\* while fewer than max_workers exist
CanSpawn(threads) == threads < max_workers

\* executor.submit(get_stock_history, row["code"], ...) for the next row of
\* stock_codes.iterrows(): one work item is queued; the pool reuses an
\* existing thread or spawns one
PoolSubmit ==
    /\ pool.submitted < pool.total
    /\ \E spawn \in BOOLEAN :
          /\ spawn => CanSpawn(pool.threads)
          /\ ~spawn => pool.threads > 0
          /\ pool' = [pool EXCEPT !.submitted = @ + 1, !.queued = @ + 1,
                                  !.threads = IF spawn THEN @ + 1 ELSE @]
    /\ UNCHANGED <<pad, runVars>>

\* an idle pool thread takes the next work item and calls get_stock_history
PoolTake ==
    /\ pool.queued > 0
    /\ pool.busy < pool.threads
    /\ pool' = [pool EXCEPT !.queued = @ - 1, !.busy = @ + 1]
    /\ UNCHANGED <<pad, runVars>>

\* get_stock_history returns; the thread is idle again
PoolFinish ==
    /\ pool.busy > 0
    /\ pool' = [pool EXCEPT !.busy = @ - 1, !.finished = @ + 1]
    /\ UNCHANGED <<pad, runVars>>

PoolNext == PoolSubmit \/ PoolTake \/ PoolFinish

SpecPool == PoolInit /\ [][PoolNext]_vars

-----------------------------------------------------------------------------
(* Data frames *)

Range(f) == {f[i] : i \in DOMAIN f}

\* df.empty
IsEmpty(df) == Len(df.rows) = 0 \/ Len(df.columns) = 0

\* df[col] = values: an existing column is overwritten in place, a new one
\* is appended after the others
SetColumn(df, col, values) ==
    [columns |-> IF col \in Range(df.columns) THEN df.columns
                 ELSE Append(df.columns, col),
     rows |-> [i \in 1..Len(df.rows) |->
                  [c \in DOMAIN df.rows[i] \cup {col} |->
                      IF c = col THEN values[i] ELSE df.rows[i][c]]]]

\* df[col].astype(str) + "%"
PercentString(v) == Str(v) \o <<"%">>

\* for col in ["换手率", "涨跌幅"]: if col in df.columns: ...
RECURSIVE AddPercent(_, _)
AddPercent(df, cols) ==
    IF cols = <<>> THEN df
    ELSE LET c == Head(cols)
             d == IF c \in Range(df.columns)
                  THEN SetColumn(df, c, [i \in 1..Len(df.rows) |->
                                              PercentString(df.rows[i][c])])
                  ELSE df
         IN  AddPercent(d, Tail(cols))

-----------------------------------------------------------------------------
(* The History Provider, ak.stock_zh_a_hist *)

ProviderSchemas == {<<"date", "code", "open", "pct">>,
                    <<"open", "date", "turnover">>}

\* trading dates of the window; the provider may repeat a date and answers
\* in any order
Dates == {1, 2}

DateSeqs == UNION {[1..n -> Dates] : n \in 1..MaxRows}

\* exceptions are a class and the length of str(e)
ExceptionClasses == {"ConnectionError", "KeyError", "ValueError", "BrokenThreadPool"}

ProviderErrors == {[cls |-> "ConnectionError", msg |-> 120],
                   [cls |-> "KeyError", msg |-> 8]}

\* the table the provider answers for `symbol`: one row per trading date, in
\* the provider's order; its own code column is not padded
ProviderTable(cols, symbol, dates) ==
    [columns |-> cols,
     rows |-> [i \in 1..Len(dates) |->
                 [c \in Range(cols) |->
                    CASE c = "date" -> dates[i]
                      [] c = "code" -> Str(ToInt(symbol))
                      [] OTHER -> i]]]

ProviderAnswers(cols, symbol) ==
    {[kind |-> "rows", table |-> ProviderTable(cols, symbol, d),
      exc |-> [cls |-> "none", msg |-> 0]] : d \in DateSeqs}
    \cup {[kind |-> "zero", table |-> EmptyTable, exc |-> [cls |-> "none", msg |-> 0]]}
    \cup {[kind |-> "error", table |-> EmptyTable, exc |-> e] : e \in ProviderErrors}

-----------------------------------------------------------------------------
(* The Fetch Worker, get_stock_history *)

\* str(e)[:50]
Truncate(n) == IF n > DiagLimit THEN DiagLimit ELSE n

\* A handler that catches connection errors only.
WorkerCatchesNarrow(e) == e.cls = "ConnectionError"

\* except Exception as e  (line 38)
WorkerCatches(e) == e.cls \in ExceptionClasses

WorkerOnError(symbol, e) ==
    IF WorkerCatches(e)
    THEN [raised |-> FALSE, exc |-> [cls |-> "none", msg |-> 0], table |-> EmptyTable,
          diag |-> {[who |-> "worker", text |-> "failed", symbol |-> symbol,
                     shown |-> Truncate(e.msg)]}]
    ELSE [raised |-> TRUE, exc |-> e, table |-> EmptyTable, diag |-> {}]

\* the outcome of get_stock_history(symbol, name, ...) when the provider
\* answers `answer`
get_stock_history(symbol, name, answer) ==
    IF answer.kind = "error" THEN WorkerOnError(symbol, answer.exc)
    ELSE IF IsEmpty(answer.table)
    THEN [raised |-> FALSE, exc |-> [cls |-> "none", msg |-> 0], table |-> EmptyTable,
          diag |-> {}]
    ELSE IF ~IsIntLiteral(symbol)
    THEN WorkerOnError(symbol, [cls |-> "ValueError", msg |-> 40])
    ELSE LET stamp == FormatZeroRight(ToInt(symbol), CodeWidth)
             n == Len(answer.table.rows)
             d1 == SetColumn(answer.table, "code", [i \in 1..n |-> stamp])
             d2 == SetColumn(d1, "name", [i \in 1..n |-> name])
         IN  [raised |-> FALSE, exc |-> [cls |-> "none", msg |-> 0],
              table |-> AddPercent(d2, <<"turnover", "pct">>), diag |-> {}]

-----------------------------------------------------------------------------
(* The Merger: pd.concat, sort_values, column reorder *)

RECURSIVE UnionColumns(_, _)
UnionColumns(acc, cols) ==
    IF cols = <<>> THEN acc
    ELSE UnionColumns(IF Head(cols) \in Range(acc) THEN acc
                      ELSE Append(acc, Head(cols)), Tail(cols))

RECURSIVE ConcatFrom(_, _)
ConcatFrom(acc, tables) ==
    IF tables = <<>> THEN acc
    ELSE ConcatFrom([columns |-> UnionColumns(acc.columns, Head(tables).columns),
                     rows |-> acc.rows \o Head(tables).rows], Tail(tables))

\* pd.concat(tables, ignore_index=True): columns in first-seen order, rows in
\* list order, NaN where a table lacks a column
concat(tables) ==
    LET whole == ConcatFrom(EmptyTable, tables)
    IN  [columns |-> whole.columns,
         rows |-> [i \in 1..Len(whole.rows) |->
                     [c \in Range(whole.columns) |->
                        IF c \in DOMAIN whole.rows[i] THEN whole.rows[i][c]
                        ELSE "NaN"]]]

\* Sort keys reduced to the stock code.
SortKeyLessCodeOnly(a, b) == StrLess(a["code"], b["code"])

\* Sort keys reduced to the date.
SortKeyLessDateOnly(a, b) == a["date"] < b["date"]

\* a sorts strictly before b under ["股票代码", "日期"], ascending
SortKeyLess(a, b) ==
    \/ StrLess(a["code"], b["code"])
    \/ a["code"] = b["code"] /\ a["date"] < b["date"]

\* r is placed before the first row that sorts strictly after it, so rows
\* with equal keys keep their order (the multi-key sort is stable)
RECURSIVE InsertSorted(_, _)
InsertSorted(sorted, r) ==
    IF sorted = <<>> THEN <<r>>
    ELSE IF SortKeyLess(r, Head(sorted)) THEN <<r>> \o sorted
    ELSE <<Head(sorted)>> \o InsertSorted(Tail(sorted), r)

RECURSIVE SortRows(_)
SortRows(rows) ==
    IF rows = <<>> THEN <<>>
    ELSE InsertSorted(SortRows(SubSeq(rows, 1, Len(rows) - 1)), rows[Len(rows)])

\* df.sort_values(["股票代码", "日期"], ascending=[True, True])
sort_values(df) == [columns |-> df.columns, rows |-> SortRows(df.rows)]

base_columns == <<"code", "name", "date">>

\* df_final[base_columns + other_columns]
ReorderColumns(df) ==
    [columns |-> base_columns
                 \o SelectSeq(df.columns, LAMBDA c : c \notin Range(base_columns)),
     rows |-> df.rows]

\* lines 84-92
MergeSortReorder(tables) == ReorderColumns(sort_values(concat(tables)))

-----------------------------------------------------------------------------
(* main()  (Spec) *)

TickerMaster ==
    << [code |-> <<"2">>, name |-> "n2"],
       [code |-> <<"1", "0">>, name |-> "n10"],
       [code |-> <<"0", "0", "0", "0", "0", "1">>, name |-> "n1"] >>

\* what ak.stock_info_a_code_name() may return: runs of distinct tickers
TickerLists ==
    {SubSeq(TickerMaster, a, b) :
        a \in 1..Len(TickerMaster) + 1,
        b \in 0..Len(TickerMaster)} \cap
    UNION {[1..n -> Range(TickerMaster)] : n \in 0..MaxTickers}

\* get_all_a_stock_codes()
get_all_a_stock_codes(stock_info) ==
    [i \in 1..Len(stock_info) |->
        [code |-> zfill(stock_info[i].code, CodeWidth), name |-> stock_info[i].name]]

NoExc == [cls |-> "none", msg |-> 0]

Init ==
    /\ pad = NoPad
    /\ PoolOff
    /\ pc = "load" /\ schema = <<>> /\ stock_codes = <<>> /\ futures = <<>>
    /\ updating = {} /\ yielded = {} /\ all_data = <<>> /\ pbar = 0 /\ log = {}
    /\ df_final = EmptyTable
    /\ out_file = [writes |-> 0, table |-> EmptyTable]

\* line 52: the ticker list is loaded; the provider's column layout for
\* this run is fixed
LoadTickers ==
    /\ pc = "load"
    /\ \E stock_info \in TickerLists, cols \in ProviderSchemas :
          /\ stock_codes' = get_all_a_stock_codes(stock_info)
          /\ schema' = cols
    /\ pc' = "submit"
    /\ UNCHANGED <<pad, pool, futures, updating, yielded, all_data, pbar, log,
                   df_final, out_file>>

\* lines 60-68: executor.submit for the next row of stock_codes
Submit ==
    /\ pc = "submit"
    /\ Len(futures) < Len(stock_codes)
    /\ futures' = Append(futures, [st |-> "queued", answer |-> "none",
                                   table |-> EmptyTable, exc |-> NoExc])
    /\ UNCHANGED <<pad, pool, pc, schema, stock_codes, updating, yielded,
                   all_data, pbar, log, df_final, out_file>>

\* line 71-72: all rows submitted; as_completed(futures) starts
StartDrain ==
    /\ pc = "submit"
    /\ Len(futures) = Len(stock_codes)
    /\ pc' = "drain"
    /\ UNCHANGED <<pad, pool, schema, stock_codes, futures, updating, yielded,
                   all_data, pbar, log, df_final, out_file>>

Running == {i \in 1..Len(futures) : futures[i].st = "running"}

\* a pool thread takes the work item of future i
WorkerStart(i) ==
    /\ futures[i].st = "queued"
    /\ Cardinality(Running) < max_workers
    /\ futures' = [futures EXCEPT ![i].st = "running"]
    /\ UNCHANGED <<pad, pool, pc, schema, stock_codes, updating, yielded,
                   all_data, pbar, log, df_final, out_file>>

\* get_stock_history runs to its end for future i, on whatever the provider
\* answers; the future holds its return value, or its exception
WorkerRun(i) ==
    /\ futures[i].st = "running"
    /\ \E answer \in ProviderAnswers(schema, stock_codes[i].code) :
          LET r == get_stock_history(stock_codes[i].code, stock_codes[i].name, answer)
          IN  /\ futures' = [futures EXCEPT
                    ![i] = [st |-> IF r.raised THEN "raised" ELSE "returned",
                            answer |-> answer.kind, table |-> r.table, exc |-> r.exc]]
              /\ log' = log \cup r.diag
    /\ UNCHANGED <<pad, pool, pc, schema, stock_codes, updating, yielded,
                   all_data, pbar, df_final, out_file>>

\* a pool-level fault: the work item of future i is never run and the
\* future is completed with an exception
PoolFault(i) ==
    /\ futures[i].st = "queued"
    /\ futures' = [futures EXCEPT ![i].st = "fault",
                                  ![i].exc = [cls |-> "BrokenThreadPool", msg |-> 60]]
    /\ UNCHANGED <<pad, pool, pc, schema, stock_codes, updating, yielded,
                   all_data, pbar, log, df_final, out_file>>

Finished(i) == futures[i].st \in {"returned", "raised", "fault"}

\* Every worker thread performs the update for its own future.
UpdaterIsWorker(i) == i

\* the execution unit that runs lines 73-80 for future i: the main thread
\* (unit 0), inside its for loop
Updater(i) == 0

\* No handler around future.result().
CoordinatorCatchesNothing(e) == FALSE

\* except Exception as e  (line 77)
CoordinatorCatches(e) == e.cls \in ExceptionClasses

\* Every table is kept.
KeepsAlways(result) == TRUE

\* if not result.empty  (line 75)
Keeps(result) == ~IsEmpty(result)

\* lines 72-78 for future i, which as_completed yields once it is finished:
\* future.result() returns or raises; a non-empty table is appended; a
\* raised exception is printed; then pbar.update reads pbar.n
CollectBegin(i) ==
    /\ pc = "drain"
    /\ i \in 1..Len(futures) /\ Finished(i) /\ i \notin yielded
    /\ \A u \in updating : u.unit # Updater(i)
    /\ yielded' = yielded \cup {i}
    /\ LET ok == futures[i].st = "returned"
           caught == ~ok /\ CoordinatorCatches(futures[i].exc)
       IN  /\ all_data' = IF ok /\ Keeps(futures[i].table)
                          THEN Append(all_data, futures[i].table) ELSE all_data
           /\ log' = IF caught
                     THEN log \cup {[who |-> "main", text |-> "exception", symbol |-> <<>>,
                                     shown |-> Truncate(futures[i].exc.msg)]}
                     ELSE log
           /\ updating' = updating \cup
                 {[unit |-> Updater(i), fut |-> i, n |-> pbar,
                   propagates |-> ~ok /\ ~caught]}
    /\ UNCHANGED <<pad, pool, pc, schema, stock_codes, futures, pbar,
                   df_final, out_file>>

\* line 80: pbar.update(1) stores pbar.n + 1; an exception no handler took
\* leaves main() after the finally block
CollectEnd(u) ==
    /\ u \in updating
    /\ updating' = updating \ {u}
    /\ pbar' = u.n + 1
    /\ pc' = IF u.propagates THEN "aborted" ELSE pc
    /\ UNCHANGED <<pad, pool, schema, stock_codes, futures, yielded, all_data,
                   log, df_final, out_file>>

\* The for loop is left as soon as nothing is being updated.
DrainCompleteEarly == updating = {}

\* as_completed(futures) is exhausted: every future was yielded and handled
DrainComplete == yielded = 1..Len(futures) /\ updating = {}

\* the for loop and the tqdm block end
EndDrain ==
    /\ pc = "drain"
    /\ DrainComplete
    /\ pc' = "shutdown"
    /\ UNCHANGED <<pad, pool, schema, stock_codes, futures, updating, yielded,
                   all_data, pbar, log, df_final, out_file>>

\* end of the with ThreadPoolExecutor block: shutdown(wait=True) returns
\* once no work item is queued or running
PoolJoined == \A i \in 1..Len(futures) : Finished(i)

ExecutorExit ==
    /\ pc = "shutdown"
    /\ PoolJoined
    /\ pc' = "merge"
    /\ UNCHANGED <<pad, pool, schema, stock_codes, futures, updating, yielded,
                   all_data, pbar, log, df_final, out_file>>

\* The output is written whatever was collected.
HasDataAlways(data) == TRUE

\* if all_data  (line 83)
HasData(data) == Len(data) > 0

\* lines 83-101
Merge ==
    /\ pc = "merge"
    /\ IF HasData(all_data)
       THEN /\ df_final' = MergeSortReorder(all_data)
            /\ out_file' = [writes |-> out_file.writes + 1, table |-> df_final']
            /\ log' = log \cup {[who |-> "main", text |-> "saved", symbol |-> <<>>,
                                  shown |-> Len(df_final'.rows)]}
       ELSE /\ log' = log \cup {[who |-> "main", text |-> "no data", symbol |-> <<>>,
                                  shown |-> 0]}
            /\ UNCHANGED <<df_final, out_file>>
    /\ pc' = "done"
    /\ UNCHANGED <<pad, pool, schema, stock_codes, futures, updating, yielded,
                   all_data, pbar>>

Next ==
    \/ LoadTickers
    \/ Submit
    \/ StartDrain
    \/ \E i \in 1..Len(futures) : WorkerStart(i)
    \/ \E i \in 1..Len(futures) : WorkerRun(i)
    \/ \E i \in 1..Len(futures) : PoolFault(i)
    \/ \E i \in 1..Len(futures) : CollectBegin(i)
    \/ \E u \in updating : CollectEnd(u)
    \/ EndDrain
    \/ ExecutorExit
    \/ Merge

Spec == Init /\ [][Next]_vars

-----------------------------------------------------------------------------
(* Properties *)

Good == {i \in 1..Len(futures) :
            futures[i].st = "returned" /\ ~IsEmpty(futures[i].table)}

Count(seq, x) == Cardinality({k \in 1..Len(seq) : seq[k] = x})

RECURSIVE SumRows(_)
SumRows(S) ==
    IF S = {} THEN 0
    ELSE LET i == CHOOSE j \in S : TRUE
         IN  Len(futures[i].table.rows) + SumRows(S \ {i})

\* C1: get_stock_history never raises to its caller: whatever the provider
\* answers (rows, zero rows, an error) the future holds a returned table,
\* and when the provider raised, that table is empty and a diagnostic of at
\* most DiagLimit characters naming the ticker was printed.
WorkerNeverRaises ==
    \A i \in 1..Len(futures) :
        /\ futures[i].st # "raised"
        /\ futures[i].answer # "none" => futures[i].st = "returned"
        /\ futures[i].answer = "error" =>
              /\ IsEmpty(futures[i].table)
              /\ \E d \in log : /\ d.who = "worker"
                                /\ d.symbol = stock_codes[i].code
                                /\ d.shown <= DiagLimit

WorkerNeverRaisesWitness ==
    \E i \in 1..Len(futures) :
        /\ futures[i].answer = "error"
        /\ futures[i].st = "returned"
        /\ \E d \in log : d.who = "worker" /\ d.shown = DiagLimit

\* C2: when main() reaches the merge, all_data holds exactly the tables of
\* the tickers whose fetch returned a non-empty table, each once, so every
\* row of such a ticker is handed over exactly once and no other row is;
\* main() is never aborted by a failed or empty ticker.
MergerGetsExactlyTheData ==
    /\ pc # "aborted"
    /\ pc \in {"merge", "done"} =>
          /\ Len(all_data) = Cardinality(Good)
          /\ \A i \in Good : Count(all_data, futures[i].table) = 1
          /\ Len(concat(all_data).rows) = SumRows(Good)
          /\ \A i \in Good : \A k \in 1..Len(futures[i].table.rows) :
                Count(concat(all_data).rows, futures[i].table.rows[k]) = 1

MergerGetsExactlyTheDataWitness ==
    /\ pc = "done"
    /\ \E i, j \in 1..Len(futures) :
          /\ futures[i].answer = "error"
          /\ j \in Good /\ Len(futures[j].table.rows) = MaxRows
    /\ out_file.writes = 1

\* C3: pbar is advanced exactly once per future handled, whether its table
\* was non-empty, empty, or future.result() raised; a raised retrieval does
\* not end main(); pbar never exceeds the number of tickers and equals it
\* once the loop has ended.
CounterOncePerTicker ==
    /\ pc # "aborted"
    /\ pbar <= Len(stock_codes)
    /\ pbar = Cardinality(yielded) - Cardinality(updating)
    /\ pc \in {"shutdown", "merge", "done"} => pbar = Len(stock_codes)

CounterOncePerTickerWitness ==
    /\ pc = "shutdown"
    /\ pbar = 2
    /\ \E i, j \in 1..Len(futures) :
          /\ futures[i].st = "fault"
          /\ futures[j].st = "returned" /\ IsEmpty(futures[j].table)
    /\ \E d \in log : d.who = "main" /\ d.text = "exception"

\* C4: the output file is written if and only if some ticker returned a
\* non-empty table; otherwise no file is written and the "no data" message
\* is printed; the file is never written more than once.
FileIffData ==
    /\ out_file.writes <= 1
    /\ pc # "done" => out_file.writes = 0
    /\ pc = "done" =>
          /\ out_file.writes = 1 <=> Good # {}
          /\ (\E d \in log : d.text = "no data") <=> Good = {}

FileIffDataWitness ==
    /\ pc = "done"
    /\ out_file.writes = 0
    /\ Len(futures) = 2
    /\ \E i, j \in 1..Len(futures) :
          futures[i].answer = "error" /\ futures[j].answer = "zero"
    /\ \E d \in log : d.text = "no data"

\* C5: in the written table every row is followed by a row with a greater
\* stock code, or with the same stock code and a date that is not earlier.
FinalTableSorted ==
    pc = "done" /\ out_file.writes = 1 =>
        LET rows == out_file.table.rows
        IN  \A k \in 1..Len(rows) - 1 :
               \/ StrLess(rows[k]["code"], rows[k + 1]["code"])
               \/ /\ rows[k]["code"] = rows[k + 1]["code"]
                  /\ rows[k]["date"] <= rows[k + 1]["date"]

FinalTableSortedWitness ==
    /\ pc = "done" /\ out_file.writes = 1
    /\ Len(all_data) = 2
    /\ StrLess(all_data[2].rows[1]["code"], all_data[1].rows[1]["code"])
    /\ \E t \in Range(all_data) :
          Len(t.rows) = 2 /\ t.rows[2]["date"] < t.rows[1]["date"]

\* C6: the written table (rows, row order, column order) is the same for
\* every order in which the collected tables could stand in all_data.
MergeOrderIndependent ==
    pc = "done" /\ out_file.writes = 1 =>
        \A p \in Permutations(1..Len(all_data)) :
            MergeSortReorder([k \in 1..Len(all_data) |-> all_data[p[k]]])
                = out_file.table

MergeOrderIndependentWitness ==
    /\ pc = "done" /\ out_file.writes = 1
    /\ Len(all_data) = 2
    /\ all_data[1].rows[1]["code"] = stock_codes[2].code
    /\ all_data[1].rows[1]["date"] = all_data[2].rows[1]["date"]
    /\ concat(all_data).columns # out_file.table.columns

\* C7: one work item is submitted per ticker, each is queued, running or
\* finished, and at most max_workers invocations run at the same time.
PoolBounded ==
    /\ pool.busy <= max_workers
    /\ pool.submitted <= pool.total
    /\ pool.queued + pool.busy + pool.finished = pool.submitted

PoolBoundedWitness ==
    /\ pool.busy = max_workers
    /\ pool.queued > 0
    /\ pool.submitted = pool.total

\* C8: for a code that is a non-negative integer below 10^CodeWidth (an
\* integer, or a digit string of at most CodeWidth characters) both padding
\* forms give exactly CodeWidth characters, the worker's re-padding leaves
\* the loader's code unchanged, and padding a padded code changes nothing.
InPadDomain ==
    LET s == astype_str(pad.raw)
    IN  Len(s) <= CodeWidth /\ \A i \in 1..Len(s) : s[i] \in Digits

PaddingIdempotent ==
    InPadDomain =>
        /\ pad.st # "ValueError"
        /\ pad.st \in {"loaded", "stamped", "repadded"} => Len(pad.code) = CodeWidth
        /\ pad.st \in {"stamped", "repadded"} =>
              Len(pad.stamp) = CodeWidth /\ pad.stamp = pad.code
        /\ pad.st = "repadded" => pad.code2 = pad.code /\ pad.stamp2 = pad.stamp

PaddingIdempotentWitness ==
    /\ InPadDomain
    /\ pad.st = "repadded"
    /\ pad.raw.kind = "int"
    /\ Len(astype_str(pad.raw)) < CodeWidth
    /\ pad.code # astype_str(pad.raw)

\* C9: at most one execution unit is updating pbar / all_data at any time,
\* and no update is lost: when the loop has ended all_data has one entry
\* per non-empty result and pbar counts every completed future.
NoConcurrentUpdate ==
    /\ \A u, v \in updating : u = v
    /\ pc \in {"shutdown", "merge", "done"} =>
          /\ Len(all_data) = Cardinality(Good)
          /\ pbar = Cardinality({i \in 1..Len(futures) : Finished(i)})

NoConcurrentUpdateWitness ==
    /\ pc = "drain"
    /\ \E u \in updating :
          \E j \in 1..Len(futures) : j # u.fut /\ Finished(j) /\ j \notin yielded

\* C10: the merge, sort and write happen at most once and only when every
\* submitted invocation has finished and every result has been collected.
MergeAfterAllWorkers ==
    /\ out_file.writes <= 1
    /\ pc \notin {"merge", "done"} => out_file.writes = 0 /\ df_final = EmptyTable
    /\ pc \in {"merge", "done"} =>
          /\ Len(futures) = Len(stock_codes)
          /\ \A i \in 1..Len(futures) : Finished(i) /\ i \in yielded
          /\ updating = {}

MergeAfterAllWorkersWitness ==
    /\ pc = "done"
    /\ out_file.writes = 1
    /\ Len(futures) = 2
    /\ Cardinality(Good) = 2

====
